---- MODULE Spec2Model ----
(***************************************************************************)
(* Single-decree Paxos role state machines of src/paxos.py: Proposer,      *)
(* Acceptor and Learner.  Every handler is an operator from (object state, *)
(* message) to (object state after the call, outcome of the call); the     *)
(* outcome is the returned message, NoneMsg for "returns None", or the     *)
(* exception the call raises.  Attribute assignments made before a raise   *)
(* persist, as they do on a Python object.                                 *)
(***************************************************************************)
EXTENDS Integers, FiniteSets, Sequences, TLC

\* ------------------------------------------------------------------ bounds
\* Largest proposal number that appears in any state or message.
MaxNumber == 2

\* ------------------------------------------------------------ participants
Proposers == {"X"}
Acceptors == {"A", "B", "C"}
Learners == {"L1", "L2"}
\* uids that occur inside proposal ids (the proposers of the cluster)
Uids == {"X", "Y"}
Values == {"v", "old"}

\* quorum_size constructor argument of Proposer and Learner: a majority
quorum_size == (Cardinality(Acceptors) \div 2) + 1

\* ------------------------------------------------------- Python's None
\* None where a value (str) is expected
None == "None"
\* None where a ProposalID is expected
NoneID == [number |-> -1, uid |-> "None"]
\* None where a set of uids is expected
NoneSet == {"None"}
\* an attribute that has never been assigned (promises_received before the
\* first prepare(): the class only annotates it)
Unset == {"Unset"}
\* a call that returns None
NoneMsg == [type |-> "None"]
\* a call that raises
Raise(kind) == [type |-> kind]

Errors == {"TypeError", "AttributeError", "AssertionError", "KeyError",
           "InvalidMessageError"}

Raised(ret) == ret.type \in Errors

\* ------------------------------------------------------------ ProposalID
ProposalID(number, uid) == [number |-> number, uid |-> uid]

ProposalIDs == [number : 0..MaxNumber, uid : Uids]

\* str comparison of the uids in use
UidRank(uid) == CASE uid = "A" -> 1 [] uid = "B" -> 2 [] uid = "C" -> 3
                  [] uid = "X" -> 4 [] uid = "Y" -> 5 [] uid = "Z" -> 6
                  [] OTHER -> 0

\* tuple comparison of two ProposalIDs (neither is None)
PidLT(a, b) == \/ a.number < b.number
               \/ a.number = b.number /\ UidRank(a.uid) < UidRank(b.uid)

PidLE(a, b) == a = b \/ PidLT(a, b)

PidGT(a, b) == PidLT(b, a)

PidGE(a, b) == PidLE(b, a)

\* -------------------------------------------------------------- messages
Prepare(from_uid, proposal_id) ==
    [type |-> "Prepare", from_uid |-> from_uid, proposal_id |-> proposal_id]

Nack(from_uid, proposer_uid, proposal_id, promised_proposal_id) ==
    [type |-> "Nack", from_uid |-> from_uid, proposer_uid |-> proposer_uid,
     proposal_id |-> proposal_id, promised_proposal_id |-> promised_proposal_id]

Promise(from_uid, proposer_uid, proposal_id, last_accepted_id, last_accepted_value) ==
    [type |-> "Promise", from_uid |-> from_uid, proposer_uid |-> proposer_uid,
     proposal_id |-> proposal_id, last_accepted_id |-> last_accepted_id,
     last_accepted_value |-> last_accepted_value]

Accept(from_uid, proposal_id, proposal_value) ==
    [type |-> "Accept", from_uid |-> from_uid, proposal_id |-> proposal_id,
     proposal_value |-> proposal_value]

Accepted(from_uid, proposal_id, proposal_value) ==
    [type |-> "Accepted", from_uid |-> from_uid, proposal_id |-> proposal_id,
     proposal_value |-> proposal_value]

Resolution(from_uid, value) ==
    [type |-> "Resolution", from_uid |-> from_uid, value |-> value]

\* ---------------------------------------------------------- MessageHandler
\* f"receive_{msg.__class__.__name__.lower()}"
HandlerName(msg) ==
    CASE msg.type = "Prepare" -> "receive_prepare"
      [] msg.type = "Promise" -> "receive_promise"
      [] msg.type = "Nack" -> "receive_nack"
      [] msg.type = "Accept" -> "receive_accept"
      [] msg.type = "Accepted" -> "receive_accepted"
      [] msg.type = "Resolution" -> "receive_resolution"

\* the receive_* methods each role class defines
ProposerHandlers == {"receive_nack", "receive_promise"}

AcceptorHandlers == {"receive_prepare", "receive_accept"}

LearnerHandlers == {"receive_accepted"}

\* MessageHandler.receive on an object whose class defines the methods in
\* handlers: the handler is looked up, and that is all: it is never called
receive(handlers, self, msg) ==
    IF HandlerName(msg) \notin handlers
    THEN [st |-> self, ret |-> Raise("InvalidMessageError")]
    ELSE [st |-> self, ret |-> NoneMsg]

\* ---------------------------------------------------------------- Proposer
\* Proposer.__init__ together with the class-level attribute defaults
ProposerInit(network_uid) ==
    [network_uid |-> network_uid,
     leader |-> FALSE,
     proposed_value |-> None,
     proposal_id |-> ProposalID(0, network_uid),
     highest_proposal_id |-> ProposalID(0, network_uid),
     highest_accepted_id |-> NoneID,
     promises_received |-> Unset,
     nacks_received |-> NoneSet,
     current_prepare_msg |-> NoneMsg,
     current_accept_msg |-> NoneMsg]

\* propose_value that lets a later call replace the value
propose_value_overwrite(p, value) ==
    LET p1 == [p EXCEPT !.proposed_value = value] IN
    IF p1.leader
    THEN LET m == Accept(p1.network_uid, p1.proposal_id, value) IN
         [st |-> [p1 EXCEPT !.current_accept_msg = m], ret |-> m]
    ELSE [st |-> p1, ret |-> NoneMsg]

propose_value(p, value) ==
    IF p.proposed_value = None
    THEN LET p1 == [p EXCEPT !.proposed_value = value] IN
         IF p1.leader
         THEN LET m == Accept(p1.network_uid, p1.proposal_id, value) IN
              [st |-> [p1 EXCEPT !.current_accept_msg = m], ret |-> m]
         ELSE [st |-> p1, ret |-> NoneMsg]
    ELSE [st |-> p, ret |-> NoneMsg]

\* prepare() that bumps the highest observed id instead of minting its own
prepare_foreign_uid(p) ==
    LET pid == ProposalID(p.highest_proposal_id.number + 1, p.highest_proposal_id.uid)
        m == Prepare(p.network_uid, pid)
    IN [st |-> [p EXCEPT !.leader = FALSE,
                         !.promises_received = {},
                         !.nacks_received = {},
                         !.proposal_id = pid,
                         !.highest_proposal_id = pid,
                         !.current_prepare_msg = m],
        ret |-> m]

prepare(p) ==
    LET pid == ProposalID(p.highest_proposal_id.number + 1, p.network_uid)
        m == Prepare(p.network_uid, pid)
    IN [st |-> [p EXCEPT !.leader = FALSE,
                         !.promises_received = {},
                         !.nacks_received = {},
                         !.proposal_id = pid,
                         !.highest_proposal_id = pid,
                         !.current_prepare_msg = m],
        ret |-> m]

\* observe_proposal that takes every observed id, lower ones included
observe_proposal_unordered(p, proposal_id) ==
    IF proposal_id = NoneID
    THEN [st |-> p, ret |-> Raise("TypeError")]
    ELSE [st |-> [p EXCEPT !.highest_proposal_id = proposal_id], ret |-> NoneMsg]

observe_proposal(p, proposal_id) ==
    IF proposal_id = NoneID
    THEN [st |-> p, ret |-> Raise("TypeError")]
    ELSE IF PidGT(proposal_id, p.highest_proposal_id)
         THEN [st |-> [p EXCEPT !.highest_proposal_id = proposal_id], ret |-> NoneMsg]
         ELSE [st |-> p, ret |-> NoneMsg]

\* receive_nack that forgets to observe the promised id of the Nack
receive_nack_unobserved(p, msg) ==
    IF msg.proposal_id = p.proposal_id /\ p.nacks_received # NoneSet
    THEN LET p1 == [p EXCEPT !.nacks_received = @ \cup {msg.from_uid}] IN
         IF Cardinality(p1.nacks_received) = quorum_size
         THEN prepare(p1)
         ELSE [st |-> p1, ret |-> NoneMsg]
    ELSE [st |-> p, ret |-> NoneMsg]

receive_nack(p, msg) ==
    LET o == observe_proposal(p, msg.promised_proposal_id) IN
    IF Raised(o.ret) THEN o
    ELSE IF msg.proposal_id = o.st.proposal_id /\ o.st.nacks_received # NoneSet
         THEN LET p1 == [o.st EXCEPT !.nacks_received = @ \cup {msg.from_uid}] IN
              IF Cardinality(p1.nacks_received) = quorum_size
              THEN prepare(p1)
              ELSE [st |-> p1, ret |-> NoneMsg]
         ELSE [st |-> o.st, ret |-> NoneMsg]

receive_promise(p, msg) ==
    IF p.leader \/ msg.proposal_id # p.proposal_id
    THEN [st |-> p, ret |-> NoneMsg]
    ELSE IF p.promises_received = Unset
    THEN [st |-> p, ret |-> Raise("AttributeError")]
    ELSE IF msg.from_uid \in p.promises_received
    THEN [st |-> p, ret |-> NoneMsg]
    ELSE LET p1 == [p EXCEPT !.promises_received = @ \cup {msg.from_uid}] IN
         \* "msg.last_accepted_id > self.highest_accepted_id": ordering a
         \* ProposalID or None against None raises TypeError
         IF msg.last_accepted_id = NoneID \/ p1.highest_accepted_id = NoneID
         THEN [st |-> p1, ret |-> Raise("TypeError")]
         ELSE LET p2 == IF PidGT(msg.last_accepted_id, p1.highest_accepted_id)
                        THEN [p1 EXCEPT !.highest_accepted_id = msg.last_accepted_id,
                                        !.proposed_value =
                                            IF msg.last_accepted_value # None
                                            THEN msg.last_accepted_value ELSE @]
                        ELSE p1
              IN IF Cardinality(p2.promises_received) = quorum_size
                 THEN LET p3 == [p2 EXCEPT !.leader = TRUE] IN
                      IF p3.proposed_value # None
                      THEN LET m == Accept(p3.network_uid, p3.proposal_id, p3.proposed_value) IN
                           [st |-> [p3 EXCEPT !.current_accept_msg = m], ret |-> m]
                      ELSE [st |-> p3, ret |-> NoneMsg]
                 ELSE [st |-> p2, ret |-> NoneMsg]

\* getattr on a message object: the attributes are the constructor's fields
HasAttr(msg, name) == name \in DOMAIN msg

\* ---------------------------------------------------------------- Acceptor
\* Acceptor.__init__: the optional arguments rehydrate durable state
AcceptorInit(network_uid, promised_id, accepted_id, accepted_value) ==
    [network_uid |-> network_uid,
     promised_id |-> promised_id,
     accepted_id |-> accepted_id,
     accepted_value |-> accepted_value]

receive_prepare(a, msg) ==
    \* the condition reads msg.propsal_id, which no message defines
    IF ~HasAttr(msg, "propsal_id")
    THEN [st |-> a, ret |-> Raise("AttributeError")]
    ELSE IF a.promised_id = NoneID
    THEN [st |-> a, ret |-> Raise("TypeError")]
    ELSE IF PidGE(msg.propsal_id, a.promised_id)
    THEN LET a1 == [a EXCEPT !.promised_id = msg.proposal_id] IN
         [st |-> a1,
          ret |-> Promise(a1.network_uid, msg.from_uid, a1.promised_id,
                          a1.accepted_id, a1.accepted_value)]
    ELSE [st |-> a,
          ret |-> Nack(a.network_uid, msg.from_uid, msg.proposal_id, a.promised_id)]

\* receive_accept that accepts whatever it is sent, without the promise test
receive_accept_unguarded(a, msg) ==
    LET a1 == [a EXCEPT !.promised_id = msg.proposal_id,
                        !.accepted_id = msg.proposal_id,
                        !.accepted_value = msg.proposal_value] IN
    [st |-> a1, ret |-> Accepted(a1.network_uid, msg.proposal_id, msg.proposal_value)]

receive_accept(a, msg) ==
    \* "msg.proposal_id >= self.promised_id" against None raises TypeError
    IF a.promised_id = NoneID
    THEN [st |-> a, ret |-> Raise("TypeError")]
    ELSE IF PidGE(msg.proposal_id, a.promised_id)
    THEN \* the first assignment reads msg.promised_id, which Accept lacks
         IF ~HasAttr(msg, "promised_id")
         THEN [st |-> a, ret |-> Raise("AttributeError")]
         ELSE LET a1 == [a EXCEPT !.promised_id = msg.promised_id,
                                  !.accepted_id = msg.proposal_id,
                                  !.accepted_value = msg.proposal_value] IN
              [st |-> a1,
               ret |-> Accepted(a1.network_uid, msg.proposal_id, a1.promised_id)]
    ELSE [st |-> a,
          ret |-> Nack(a.network_uid, msg.from_uid, msg.proposal_id, a.promised_id)]

\* ----------------------------------------------------------------- Learner
\* dict helpers: a dict is a function on its key set
DictSet(d, k, v) == [x \in (DOMAIN d) \cup {k} |-> IF x = k THEN v ELSE d[x]]

DictDel(d, k) == [x \in (DOMAIN d) \ {k} |-> d[x]]

EmptyDict == <<>>

\* None in place of the proposals dict / the acceptors dict
NoneProposals == [k \in {NoneID} |-> None]

NoneAcceptors == [k \in {"None"} |-> NoneID]

\* Learner.ProposalStatus.__init__
ProposalStatus(value) ==
    [accept_count |-> 0, retain_count |-> 0, acceptors |-> {}, value |-> value]

LearnerInit(network_uid) ==
    [network_uid |-> network_uid,
     proposals |-> EmptyDict,
     acceptors |-> EmptyDict,
     final_value |-> None,
     final_acceptors |-> NoneSet,
     final_proposal_id |-> NoneID]

\* the pre-resolution part of receive_accepted after the stale-message test
CountAccepted(l, msg, last_pn) ==
    LET l1 == [l EXCEPT !.acceptors = DictSet(@, msg.from_uid, msg.proposal_id)] IN
    IF last_pn # NoneID /\ last_pn \notin DOMAIN l1.proposals
    THEN [st |-> l1, ret |-> Raise("KeyError")]
    ELSE
    LET props1 ==
            IF last_pn # NoneID
            THEN LET old == l1.proposals[last_pn]
                     dec == [old EXCEPT !.retain_count = @ - 1,
                                        !.acceptors = @ \ {msg.from_uid}]
                 IN IF dec.retain_count = 0
                    THEN DictDel(l1.proposals, last_pn)
                    ELSE DictSet(l1.proposals, last_pn, dec)
            ELSE l1.proposals
        props2 == IF msg.proposal_id \notin DOMAIN props1
                  THEN DictSet(props1, msg.proposal_id, ProposalStatus(msg.proposal_value))
                  ELSE props1
        ps == props2[msg.proposal_id]
    IN IF msg.proposal_value # ps.value
       THEN [st |-> [l1 EXCEPT !.proposals = props2], ret |-> Raise("AssertionError")]
       ELSE LET ps1 == [ps EXCEPT !.accept_count = @ + 1,
                                  !.retain_count = @ + 1,
                                  !.acceptors = @ \cup {msg.from_uid}]
                l2 == [l1 EXCEPT !.proposals = DictSet(props2, msg.proposal_id, ps1)]
            IN IF ps1.accept_count = quorum_size
               THEN [st |-> [l2 EXCEPT !.final_proposal_id = msg.proposal_id,
                                       !.final_value = msg.proposal_value,
                                       !.final_acceptors = ps1.acceptors,
                                       !.proposals = NoneProposals,
                                       !.acceptors = NoneAcceptors],
                     ret |-> Resolution(l2.network_uid, msg.proposal_value)]
               ELSE [st |-> l2, ret |-> NoneMsg]

\* receive_accepted that never looks up the sender's previous vote, so that
\* every delivery is counted as a first one
receive_accepted_recount(l, msg) ==
    IF l.final_value # None
    THEN [st |-> l, ret |-> Resolution(l.network_uid, l.final_value)]
    ELSE CountAccepted(l, msg, NoneID)

receive_accepted(l, msg) ==
    IF l.final_value # None
    THEN IF PidGE(msg.proposal_id, l.final_proposal_id)
         THEN \* the second conjunct reads msg.prosal_value
              IF ~HasAttr(msg, "prosal_value")
              THEN [st |-> l, ret |-> Raise("AttributeError")]
              ELSE IF msg.prosal_value = l.final_value
              THEN IF l.acceptors = NoneAcceptors
                   THEN [st |-> l, ret |-> Raise("AssertionError")]
                   ELSE [st |-> [l EXCEPT !.final_acceptors = @ \cup {msg.from_uid}],
                         ret |-> Resolution(l.network_uid, l.final_value)]
              ELSE [st |-> l, ret |-> Resolution(l.network_uid, l.final_value)]
         ELSE [st |-> l, ret |-> Resolution(l.network_uid, l.final_value)]
    ELSE LET last_pn == IF msg.from_uid \in DOMAIN l.acceptors
                        THEN l.acceptors[msg.from_uid] ELSE NoneID IN
         \* "msg.proposal_id <= last_pn" with last_pn None raises TypeError
         IF last_pn = NoneID
         THEN [st |-> l, ret |-> Raise("TypeError")]
         ELSE IF PidLE(msg.proposal_id, last_pn)
         THEN [st |-> l, ret |-> NoneMsg]
         ELSE CountAccepted(l, msg, last_pn)

\* ------------------------------------------------------------------- state
VARIABLES
    proposer,           \* proposer[p]: the attributes of Proposer object p
    acceptor,           \* acceptor[a]: the attributes of Acceptor object a
    learner,            \* learner[l]: the attributes of Learner object l
    last,               \* the latest call: operation, receiver, outcome
    max_observed,       \* history: max_observed[p] = the greatest number among
                        \*          the proposal ids p has issued or been shown
    promises_counted,   \* history: last-accepted pairs of the Promises added to
                        \*          promises_received in p's current round
    network             \* messages the transport holds: [to, msg] envelopes

vars == <<proposer, acceptor, learner, last, max_observed, promises_counted,
          network>>

\* ------------------------------------------------------------------ inputs
\* durable acceptor records a driver may rehydrate an Acceptor from
DurableStates ==
    { [promised_id |-> NoneID, accepted_id |-> NoneID, accepted_value |-> None],
      [promised_id |-> ProposalID(1, "Y"), accepted_id |-> NoneID,
       accepted_value |-> None],
      [promised_id |-> ProposalID(1, "Y"), accepted_id |-> ProposalID(1, "X"),
       accepted_value |-> "old"] }

\* (last_accepted_id, last_accepted_value) of a Promise: jointly absent or present
LastAccepted ==
    { [id |-> NoneID, value |-> None],
      [id |-> ProposalID(1, "X"), value |-> "v"],
      [id |-> ProposalID(1, "Y"), value |-> "old"] }

\* the proposal ids proposer p can have issued: a Promise or Nack routed to p
\* answers a Prepare or Accept of p
OwnIDs(p) == { pid \in ProposalIDs : pid.uid = p }

PrepareMsgs == { Prepare(pid.uid, pid) : pid \in ProposalIDs }

AcceptMsgs == { Accept(x.pid.uid, x.pid, x.v) : x \in [pid : ProposalIDs, v : Values] }

PromiseMsgs(p) ==
    { Promise(x.a, p, x.pid, x.la.id, x.la.value) :
        x \in [a : Acceptors, pid : OwnIDs(p), la : LastAccepted] }

NackMsgs(p) ==
    { Nack(x.a, p, x.pid, x.prom) :
        x \in [a : Acceptors, pid : OwnIDs(p), prom : ProposalIDs] }

AcceptedMsgs ==
    { Accepted(x.a, x.pid, x.v) : x \in [a : Acceptors, pid : ProposalIDs, v : Values] }

Call(op, to, ret) == [op |-> op, to |-> to, ret |-> ret]

Init ==
    /\ proposer = [p \in Proposers |-> ProposerInit(p)]
    /\ \E d \in [Acceptors -> DurableStates] :
          acceptor = [a \in Acceptors |->
                        AcceptorInit(a, d[a].promised_id, d[a].accepted_id,
                                     d[a].accepted_value)]
    /\ learner = [l \in Learners |-> LearnerInit(l)]
    /\ last = Call("init", "None", NoneMsg)
    /\ max_observed = [p \in Proposers |-> 0]
    /\ promises_counted = [p \in Proposers |-> {}]
    /\ network = {}

\* ----------------------------------------------------------------- actions
Max(S) == CHOOSE n \in S : \A m \in S : m <= n

\* The effect on proposer p of a call with outcome r; seen = numbers of the
\* ids the call was shown, counted = last-accepted pairs of a Promise the call
\* was given.
ProposerApply(p, op, r, seen, counted) ==
    /\ r.st.highest_proposal_id.number <= MaxNumber
    /\ proposer' = [proposer EXCEPT ![p] = r.st]
    /\ last' = Call(op, p, r.ret)
    /\ max_observed' = [max_observed EXCEPT ![p] =
            Max({@, r.st.proposal_id.number} \cup seen)]
    /\ promises_counted' = [promises_counted EXCEPT ![p] =
            IF r.st.proposal_id # proposer[p].proposal_id THEN {}
            ELSE IF r.st.promises_received # proposer[p].promises_received
                 THEN @ \cup counted
                 ELSE @]
    /\ UNCHANGED <<acceptor, learner>>

\* the driver calls a proposer method itself and keeps what it returns
ProposerCall(p, op, r, seen, counted) ==
    /\ ProposerApply(p, op, r, seen, counted)
    /\ UNCHANGED network

DoPrepare(p) ==
    ProposerCall(p, "prepare", prepare(proposer[p]), {}, {})

DoProposeValue(p, value) ==
    ProposerCall(p, "propose_value", propose_value(proposer[p], value), {}, {})

DoObserveProposal(p, pid) ==
    ProposerCall(p, "observe_proposal", observe_proposal(proposer[p], pid),
                 {pid.number}, {})

ReceiveNack(p, msg) ==
    ProposerCall(p, "receive_nack", receive_nack(proposer[p], msg),
                 {msg.promised_proposal_id.number}, {})

ReceivePromise(p, msg) ==
    ProposerCall(p, "receive_promise", receive_promise(proposer[p], msg), {},
                 {[id |-> msg.last_accepted_id, value |-> msg.last_accepted_value]})

AcceptorApply(a, op, r) ==
    /\ acceptor' = [acceptor EXCEPT ![a] = r.st]
    /\ last' = Call(op, a, r.ret)
    /\ UNCHANGED <<proposer, learner, max_observed, promises_counted>>

AcceptorCall(a, op, r) ==
    /\ AcceptorApply(a, op, r)
    /\ UNCHANGED network

ReceivePrepare(a, msg) ==
    AcceptorCall(a, "receive_prepare", receive_prepare(acceptor[a], msg))

ReceiveAccept(a, msg) ==
    AcceptorCall(a, "receive_accept", receive_accept(acceptor[a], msg))

LearnerApply(l, op, r) ==
    /\ learner' = [learner EXCEPT ![l] = r.st]
    /\ last' = Call(op, l, r.ret)
    /\ UNCHANGED <<proposer, acceptor, max_observed, promises_counted>>

ReceiveAccepted(l, msg) ==
    /\ LearnerApply(l, "receive_accepted", receive_accepted(learner[l], msg))
    /\ UNCHANGED network

\* the driver's calls on the proposers
NextProposer ==
    \/ \E p \in Proposers : DoPrepare(p)
    \/ \E p \in Proposers, value \in Values : DoProposeValue(p, value)
    \/ \E p \in Proposers, pid \in ProposalIDs : DoObserveProposal(p, pid)
    \/ \E p \in Proposers : \E msg \in NackMsgs(p) : ReceiveNack(p, msg)
    \/ \E p \in Proposers : \E msg \in PromiseMsgs(p) : ReceivePromise(p, msg)

\* the driver's calls on the acceptors
NextAcceptor ==
    \/ \E a \in Acceptors, msg \in PrepareMsgs : ReceivePrepare(a, msg)
    \/ \E a \in Acceptors, msg \in AcceptMsgs : ReceiveAccept(a, msg)

\* the driver's calls on the learners
NextLearner ==
    \E l \in Learners, msg \in AcceptedMsgs : ReceiveAccepted(l, msg)

Next == NextProposer \/ NextAcceptor \/ NextLearner

\* every role, every acceptor rehydrated from any durable record
Spec == Init /\ [][Next]_vars

\* a cluster whose acceptors start with no durable state
InitFresh ==
    /\ Init
    /\ \A a \in Acceptors : acceptor[a] = AcceptorInit(a, NoneID, NoneID, None)

\* the proposers and the learners under every sequence of calls
SpecProposer == InitFresh /\ [][NextProposer \/ NextLearner]_vars

\* the acceptors and the learners under every sequence of calls
SpecAcceptor == Init /\ [][NextAcceptor \/ NextLearner]_vars

\* ------------------------------------------------------- receive(msg) calls
ResolutionMsgs == { Resolution(x.l, x.v) : x \in [l : Learners, v : Values] }

\* every message a driver may hand to receive()
AllMsgs ==
    PrepareMsgs \cup AcceptMsgs \cup AcceptedMsgs \cup ResolutionMsgs
    \cup UNION { PromiseMsgs(p) \cup NackMsgs(p) : p \in Proposers }

ProposerReceive(p, msg) ==
    ProposerCall(p, "receive", receive(ProposerHandlers, proposer[p], msg), {}, {})

AcceptorReceive(a, msg) ==
    AcceptorCall(a, "receive", receive(AcceptorHandlers, acceptor[a], msg))

LearnerReceive(l, msg) ==
    /\ LearnerApply(l, "receive", receive(LearnerHandlers, learner[l], msg))
    /\ UNCHANGED network

NextDispatch ==
    \/ \E p \in Proposers, msg \in AllMsgs : ProposerReceive(p, msg)
    \/ \E a \in Acceptors, msg \in AllMsgs : AcceptorReceive(a, msg)
    \/ \E l \in Learners, msg \in AllMsgs : LearnerReceive(l, msg)

\* every role object reached through receive(msg) only
SpecDispatch == Init /\ [][NextDispatch]_vars

\* ------------------------------------------------------ the routed cluster
\* Where the transport sends a message a handler returned (section 2 of the
\* design): Prepare and Accept to every acceptor, Promise and Nack to the
\* proposer they name, Accepted to every learner; nothing for None, a
\* Resolution or an exception.
Route(m) ==
    CASE m.type \in {"Prepare", "Accept"} -> { [to |-> a, msg |-> m] : a \in Acceptors }
      [] m.type \in {"Promise", "Nack"} -> { [to |-> m.proposer_uid, msg |-> m] }
      [] m.type = "Accepted" -> { [to |-> l, msg |-> m] : l \in Learners }
      [] OTHER -> {}

\* the driver calls prepare() once on a proposer that has not prepared yet
CleanPrepare(p) ==
    /\ proposer[p].promises_received = Unset
    /\ ProposerApply(p, "prepare", prepare(proposer[p]), {}, {})
    /\ network' = network \cup Route(last'.ret)

\* the driver supplies the value of a proposer that has none yet
CleanProposeValue(p, value) ==
    /\ proposer[p].proposed_value = None
    /\ ProposerApply(p, "propose_value", propose_value(proposer[p], value), {}, {})
    /\ network' = network \cup Route(last'.ret)

\* the transport hands envelope e to its recipient's handler and takes up
\* what the handler returns
Deliver(e) ==
    /\ e \in network
    /\ IF e.msg.type = "Prepare"
       THEN AcceptorApply(e.to, "receive_prepare", receive_prepare(acceptor[e.to], e.msg))
       ELSE IF e.msg.type = "Accept"
       THEN AcceptorApply(e.to, "receive_accept", receive_accept(acceptor[e.to], e.msg))
       ELSE IF e.msg.type = "Promise"
       THEN ProposerApply(e.to, "receive_promise", receive_promise(proposer[e.to], e.msg),
                          {}, {[id |-> e.msg.last_accepted_id,
                                value |-> e.msg.last_accepted_value]})
       ELSE IF e.msg.type = "Nack"
       THEN ProposerApply(e.to, "receive_nack", receive_nack(proposer[e.to], e.msg),
                          {e.msg.promised_proposal_id.number}, {})
       ELSE LearnerApply(e.to, "receive_accepted", receive_accepted(learner[e.to], e.msg))
    /\ network' = (network \ {e}) \cup Route(last'.ret)

NextClean ==
    \/ \E p \in Proposers : CleanPrepare(p)
    \/ \E p \in Proposers, value \in Values : CleanProposeValue(p, value)
    \/ \E e \in network : Deliver(e)

\* one proposer, its driver calling prepare() and propose_value(v), and a
\* transport that eventually delivers every message it holds
SpecClean ==
    /\ Init
    /\ [][NextClean]_vars
    /\ WF_vars(\E p \in Proposers : CleanPrepare(p))
    /\ WF_vars(\E p \in Proposers, value \in Values : CleanProposeValue(p, value))
    /\ WF_vars(\E e \in network : Deliver(e))

\* ------------------------------------------------------------------ claims

\* C3: whenever a proposer holds at least quorum_size promises for its
\* current round and one of the Promises counted in the round carried a
\* value, proposed_value is the value of the counted Promise with the
\* greatest last_accepted_id, and the Accept of the round carries it.
C3_AdoptionRule ==
    \A p \in Proposers :
        LET s == proposer[p]
            carried == { c \in promises_counted[p] : c.value # None }
        IN (/\ s.promises_received # Unset
            /\ Cardinality(s.promises_received) >= quorum_size
            /\ carried # {})
           => LET best == CHOOSE c \in carried : \A d \in carried : PidLE(d.id, c.id)
              IN /\ s.proposed_value = best.value
                 /\ s.current_accept_msg # NoneMsg
                 /\ s.current_accept_msg.proposal_id = s.proposal_id
                 /\ s.current_accept_msg.proposal_value = best.value

\* C4: no call on an acceptor lowers promised_id, and a promised_id that is
\* set is never unset.
C4_PromisedIdMonotone ==
    [][\A a \in Acceptors :
          acceptor[a].promised_id # NoneID
          => /\ acceptor'[a].promised_id # NoneID
             /\ PidGE(acceptor'[a].promised_id, acceptor[a].promised_id)]_vars

\* an Accept below the promised id was rejected with a Nack naming the
\* promised id the acceptor still holds
C4_Witness ==
    \E a \in Acceptors :
        /\ last.op = "receive_accept" /\ last.to = a
        /\ last.ret.type = "Nack"
        /\ acceptor[a].promised_id = last.ret.promised_proposal_id
        /\ PidLT(last.ret.proposal_id, acceptor[a].promised_id)

\* C6: every change of a proposer's proposal_id yields a strictly greater
\* id (hence greater than all earlier ones), and its uid is always the
\* proposer's network_uid.
C6_ProposalIdIncreasing ==
    /\ [](\A p \in Proposers : proposer[p].proposal_id.uid = proposer[p].network_uid)
    /\ [][\A p \in Proposers :
             proposer'[p].proposal_id # proposer[p].proposal_id
             => PidGT(proposer'[p].proposal_id, proposer[p].proposal_id)]_vars

\* prepare() has just minted an id above a foreign id the proposer observed
C6_Witness ==
    \E p \in Proposers :
        /\ last = Call("prepare", p, proposer[p].current_prepare_msg)
        /\ proposer[p].proposal_id.number >= 2
        /\ proposer[p].proposal_id.uid = p
        /\ proposer[p].proposal_id = proposer[p].highest_proposal_id

\* C7: a Nack that adds the quorum_size-th distinct sender for the current
\* proposal_id makes receive_nack return a Prepare with the proposer's uid
\* and a number above every number observed so far; any other Nack returns
\* nothing and leaves the round as it is.
C7_NackQuorumRecovery ==
    \A p \in Proposers : \A msg \in NackMsgs(p) :
        LET s == proposer[p]
            r == receive_nack(s, msg)
            completes == /\ s.nacks_received # NoneSet
                         /\ msg.proposal_id = s.proposal_id
                         /\ msg.from_uid \notin s.nacks_received
                         /\ Cardinality(s.nacks_received) = quorum_size - 1
        IN IF completes
           THEN /\ r.ret.type = "Prepare"
                /\ r.ret.from_uid = s.network_uid
                /\ r.ret.proposal_id.uid = s.network_uid
                /\ r.ret.proposal_id.number >
                       Max({max_observed[p], msg.promised_proposal_id.number})
                /\ r.st.proposal_id = r.ret.proposal_id
           ELSE /\ r.ret = NoneMsg
                /\ r.st.proposal_id = s.proposal_id
                /\ r.st.current_prepare_msg = s.current_prepare_msg
                /\ r.st.promises_received = s.promises_received

\* receive_nack has just returned the Prepare of a new round
C7_Witness ==
    \E p \in Proposers :
        /\ last.op = "receive_nack" /\ last.to = p
        /\ last.ret.type = "Prepare"
        /\ last.ret = proposer[p].current_prepare_msg
        /\ proposer[p].proposal_id.number = max_observed[p]
        /\ proposer[p].nacks_received = {}

C9_PrepareRoundTrip ==
    [][\A a \in Acceptors : \A msg \in PrepareMsgs :
          (/\ ReceivePrepare(a, msg)
           /\ \/ acceptor[a].promised_id = NoneID
              \/ PidLT(acceptor[a].promised_id, msg.proposal_id))
          => /\ last'.ret = Promise(a, msg.from_uid, msg.proposal_id,
                                    acceptor[a].accepted_id, acceptor[a].accepted_value)
             /\ acceptor'[a] = [acceptor[a] EXCEPT !.promised_id = msg.proposal_id]
             /\ receive_prepare(acceptor'[a], msg).ret = last'.ret]_vars

\* C10: receive_accept(Accept(pid, v)) with promised_id absent or <= pid
\* records pid as promised and accepted id and v as accepted value and
\* returns Accepted(pid, v); with pid < promised_id it returns a Nack naming
\* promised_id and changes nothing.
C10_ReceiveAccept ==
    [][\A a \in Acceptors : \A msg \in AcceptMsgs :
          ReceiveAccept(a, msg)
          => IF \/ acceptor[a].promised_id = NoneID
                \/ PidLE(acceptor[a].promised_id, msg.proposal_id)
             THEN /\ acceptor'[a] = [acceptor[a] EXCEPT
                                        !.promised_id = msg.proposal_id,
                                        !.accepted_id = msg.proposal_id,
                                        !.accepted_value = msg.proposal_value]
                  /\ last'.ret = Accepted(a, msg.proposal_id, msg.proposal_value)
             ELSE /\ acceptor'[a] = acceptor[a]
                  /\ last'.ret = Nack(a, msg.from_uid, msg.proposal_id,
                                      acceptor[a].promised_id)]_vars

\* C11: from acceptors without durable state, with prepare() and
\* propose_value(v) called on the one proposer and every message eventually
\* delivered, the proposer becomes leader and emits its Accept and some
\* learner eventually resolves v.
C11_CleanRunLiveness ==
    (\A a \in Acceptors : acceptor[a] = AcceptorInit(a, NoneID, NoneID, None))
    => <>(\E p \in Proposers :
            /\ proposer[p].leader
            /\ proposer[p].current_accept_msg =
                   Accept(p, ProposalID(1, p), proposer[p].proposed_value)
            /\ \E l \in Learners :
                   /\ learner[l].final_value # None
                   /\ learner[l].final_value = proposer[p].proposed_value)

\* C12: receive(msg) changes the state and returns the message that the
\* role's handler for the variant of msg does; for a variant the role has no
\* handler for it raises InvalidMessageError and changes nothing.
C12_Dispatch ==
    [][/\ \A p \in Proposers : \A msg \in AllMsgs :
            ProposerReceive(p, msg)
            => LET direct ==
                       IF msg.type = "Nack" THEN receive_nack(proposer[p], msg)
                       ELSE IF msg.type = "Promise"
                       THEN receive_promise(proposer[p], msg)
                       ELSE [st |-> proposer[p], ret |-> Raise("InvalidMessageError")]
               IN proposer'[p] = direct.st /\ last'.ret = direct.ret
       /\ \A a \in Acceptors : \A msg \in AllMsgs :
            AcceptorReceive(a, msg)
            => LET direct ==
                       IF msg.type = "Prepare" THEN receive_prepare(acceptor[a], msg)
                       ELSE IF msg.type = "Accept"
                       THEN receive_accept(acceptor[a], msg)
                       ELSE [st |-> acceptor[a], ret |-> Raise("InvalidMessageError")]
               IN acceptor'[a] = direct.st /\ last'.ret = direct.ret
       /\ \A l \in Learners : \A msg \in AllMsgs :
            LearnerReceive(l, msg)
            => LET direct ==
                       IF msg.type = "Accepted" THEN receive_accepted(learner[l], msg)
                       ELSE [st |-> learner[l], ret |-> Raise("InvalidMessageError")]
               IN learner'[l] = direct.st /\ last'.ret = direct.ret]_vars

\* C13: a resolved learner answers every Accepted with
\* Resolution(final_value) and adds the sender to final_acceptors exactly
\* when the message has proposal_id >= final_proposal_id and the final
\* value; so when A and B have sent Accepted(pid, v) to a learner that had
\* heard nothing and C sends it late, the answers to B and to C are
\* Resolution(v) and final_acceptors ends as {A, B, C}.
C13_PostResolution ==
    \A l \in Learners :
        /\ learner[l].final_value # None
           => \A msg \in AcceptedMsgs :
                 LET r == receive_accepted(learner[l], msg)
                     adds == /\ PidGE(msg.proposal_id, learner[l].final_proposal_id)
                             /\ msg.proposal_value = learner[l].final_value
                 IN /\ r.ret = Resolution(l, learner[l].final_value)
                    /\ r.st.final_acceptors =
                          IF adds THEN learner[l].final_acceptors \cup {msg.from_uid}
                          ELSE learner[l].final_acceptors
        /\ learner[l] = LearnerInit(l)
           => \A pid \in ProposalIDs, v \in Values :
                 LET fromA == receive_accepted(learner[l], Accepted("A", pid, v))
                     fromB == receive_accepted(fromA.st, Accepted("B", pid, v))
                     fromC == receive_accepted(fromB.st, Accepted("C", pid, v))
                 IN /\ fromB.ret = Resolution(l, v)
                    /\ fromC.ret = Resolution(l, v)
                    /\ fromC.st.final_value = v
                    /\ fromC.st.final_acceptors = {"A", "B", "C"}

C15_ObserveOnReceive ==
    /\ [](\A p \in Proposers :
            /\ \A msg \in PromiseMsgs(p) :
                  PidGE(receive_promise(proposer[p], msg).st.highest_proposal_id,
                        msg.proposal_id)
            /\ \A msg \in NackMsgs(p) :
                  PidGE(receive_nack(proposer[p], msg).st.highest_proposal_id,
                        msg.promised_proposal_id))
    /\ [][\A p \in Proposers :
             PidGE(proposer'[p].highest_proposal_id, proposer[p].highest_proposal_id)]_vars

====
